---- MODULE Spec2Model ----
(***************************************************************************)
(* The export crawler of onenote_export.py: the fetch client (get), the    *)
(* pagination reader (get_json), the selection filter (filter_items), the  *)
(* hierarchy walker (download_notebooks .. download_pages), the page       *)
(* materializer (download_page) and the attachment resolver                *)
(* (download_attachments), run against a remote that answers requests.     *)
(*                                                                         *)
(* A string is a sequence of one-character strings (".NOTES", ".html" and  *)
(* the other fixed suffixes are one element each); a path is a sequence of *)
(* path segments, each a string.                                           *)
(***************************************************************************)
EXTENDS Integers, Sequences, FiniteSets, TLC

\* ------------------------------------------------------------------ bounds

\* 429 responses the remote gives in one behaviour.
MaxThrottle == 2
\* URLs the remote answers with a status other than 200 and 429.
MaxFaults == 1
\* Invocations of main_logic (runs of the export) in one behaviour.
MaxRuns == 2
\* Length of the item list and of the selector handed to filter_items alone.
MaxItems == 3

\* ----------------------------------------------------------------- strings

\* str.lower() on the letters the model uses.
Lower(c) ==
  CASE c = "W" -> "w"
    [] c = "P" -> "p"
    [] c = "A" -> "a"
    [] c = "B" -> "b"
    [] OTHER -> c

RECURSIVE lower(_)
lower(s) == IF s = <<>> THEN <<>> ELSE <<Lower(Head(s))>> \o lower(Tail(s))

\* fnmatch.fnmatch(name, pat): "*" matches any run of characters, "?" any one
\* character, every other character itself (os.path.normcase is the identity
\* on POSIX; character classes are not used by the patterns of the model).
RECURSIVE fnmatch(_, _)
fnmatch(name, pat) ==
  IF pat = <<>> THEN name = <<>>
  ELSE IF Head(pat) = "*"
    THEN fnmatch(name, Tail(pat)) \/ (name # <<>> /\ fnmatch(Tail(name), pat))
    ELSE /\ name # <<>>
         /\ (Head(pat) = "?" \/ Head(pat) = Head(name))
         /\ fnmatch(Tail(name), Tail(pat))

\* A variant of Matches for comparison: the comparison is case-sensitive.
MatchesCaseSensitive(item, seg) ==
  fnmatch(IF "displayName" \in DOMAIN item THEN item.displayName ELSE item.title, seg)

\* item.get('displayName', item.get('title')).lower() matched against
\* select[0].lower().
Matches(item, seg) ==
  fnmatch(lower(IF "displayName" \in DOMAIN item THEN item.displayName ELSE item.title),
          lower(seg))

RECURSIVE Keep(_, _)
Keep(items, seg) ==
  IF items = <<>> THEN <<>>
  ELSE (IF Matches(Head(items), seg) THEN <<Head(items)>> ELSE <<>>)
         \o Keep(Tail(items), seg)

\* filter_items(items, select) -> (items, select): a pair.
filter_items(items, select) ==
  IF select = <<>> THEN <<items, select>>
  ELSE <<Keep(items, Head(select)), Tail(select)>>

\* ------------------------------------------------------------------- paths

InvalidChars == {"/", ":"}

\* sanitize_filepath(sanitize_filename(title)): the characters that are not
\* valid in a file name are removed.
RECURSIVE sanitize(_)
sanitize(s) ==
  IF s = <<>> THEN <<>>
  ELSE (IF Head(s) \in InvalidChars THEN <<>> ELSE <<Head(s)>>) \o sanitize(Tail(s))

\* The segments of a string used as the right operand of pathlib's "/": the
\* string is split at "/" and empty segments are dropped.
RECURSIVE Segments(_, _)
Segments(s, cur) ==
  IF s = <<>> THEN (IF cur = <<>> THEN <<>> ELSE <<cur>>)
  ELSE IF Head(s) = "/"
    THEN (IF cur = <<>> THEN <<>> ELSE <<cur>>) \o Segments(Tail(s), <<>>)
    ELSE Segments(Tail(s), Append(cur, Head(s)))

\* pathlib: path / s.  A string that starts with "/" is an absolute path and
\* replaces the left operand.
PathJoin(path, s) ==
  IF s # <<>> /\ Head(s) = "/" THEN <<<<"/">>>> \o Segments(s, <<>>)
  ELSE path \o Segments(s, <<>>)

\* path.mkdir(parents=True, exist_ok=True): the path and all its ancestors.
WithParents(path) == {SubSeq(path, 1, n) : n \in 1..Len(path)}

\* ------------------------------------------------------------- the remote

\* A URL: the endpoint (kind, id), the query string and, for a continuation
\* link, the number of batches already delivered.
Url(kind, id) == [kind |-> kind, id |-> id, q |-> "", skip |-> 0]

NoUrl == Url("none", 0)

graph_url_notebooks == Url("notebooks", 0)

Notebook(i, name) ==
  [id |-> i, displayName |-> name,
   sectionsUrl |-> Url("nbSections", i), sectionGroupsUrl |-> Url("nbGroups", i)]

SectionGroup(i, name) ==
  [id |-> i, displayName |-> name,
   sectionsUrl |-> Url("sgSections", i), sectionGroupsUrl |-> Url("sgGroups", i)]

Section(i, name) == [id |-> i, displayName |-> name, pagesUrl |-> Url("pages", i)]

Page(i, title, order, level) ==
  [id |-> i, title |-> title, order |-> order, level |-> level,
   contentUrl |-> Url("content", i)]

\* An <img .../> tag (src, data-src-type) or an <object .../> tag (data,
\* data-attachment) of a page's HTML; local: the reference was rewritten to
\* the local copy.
Img(i, type) == [tag |-> "img", url |-> Url("resource", i), name |-> <<>>, type |-> type,
                 local |-> FALSE]
Object(i, name) == [tag |-> "object", url |-> Url("resource", i), name |-> name,
                    type |-> "", local |-> FALSE]

Work == <<"W", "k">>
Personal == <<"P", "e">>

\* The sections, section groups and pages of the remote hierarchy.  Notebook
\* Work holds section s1 (the pages chosen by Init) and section group g1, which
\* holds section s2 and the nested section group g2 (section s3); notebook
\* Personal holds section s:4, whose name is not a valid file name.
NotebookList == <<Notebook(1, Work), Notebook(2, Personal)>>

PagesOf(sec, pagesIn) ==
  CASE sec = 1 -> pagesIn
    [] sec = 2 -> <<Page(4, <<"A">>, 1, 0)>>
    [] sec = 3 -> <<Page(5, <<"A">>, 1, 0)>>
    [] OTHER -> <<Page(6, <<"B">>, 1, 0)>>

\* The items of a list endpoint, in the order the remote lists them.
Listing(url, pagesIn) ==
  CASE url.kind = "notebooks" -> NotebookList
    [] url.kind = "nbSections" ->
         (IF url.id = 1 THEN <<Section(1, <<"s", "1">>)>>
          ELSE <<Section(4, <<"s", ":", "4">>)>>)
    [] url.kind = "nbGroups" ->
         (IF url.id = 1 THEN <<SectionGroup(1, <<"g", "1">>)>> ELSE <<>>)
    [] url.kind = "sgSections" ->
         (IF url.id = 1 THEN <<Section(2, <<"s", "2">>)>> ELSE <<Section(3, <<"s", "3">>)>>)
    [] url.kind = "sgGroups" ->
         (IF url.id = 1 THEN <<SectionGroup(2, <<"g", "2">>)>> ELSE <<>>)
    [] url.kind = "pages" -> PagesOf(url.id, pagesIn)
    [] OTHER -> <<>>

IsList(url) ==
  url.kind \in {"notebooks", "nbSections", "nbGroups", "sgSections", "sgGroups", "pages"}

\* The remote delivers a list one item per batch, each batch but the last
\* with a continuation link; an empty list is one empty batch.
Batches(url, pagesIn) ==
  LET all == Listing(url, pagesIn) IN
  IF all = <<>> THEN << <<>> >> ELSE [i \in 1..Len(all) |-> <<all[i]>>]

\* The body of a list response: {value: [...], "@odata.nextLink"?: url}.
ListBody(url, pagesIn) ==
  LET bs == Batches(url, pagesIn) IN
  [value |-> bs[url.skip + 1],
   nextLink |-> IF url.skip + 1 < Len(bs) THEN [url EXCEPT !.skip = url.skip + 1] ELSE NoUrl]

\* The tags of a page's HTML that refer to binary content.  Page 1 shows the
\* same image twice and carries an attachment; page 2 carries an attachment
\* of the same file name.
Content(page) ==
  CASE page = 1 -> <<Img(1, "png"), Img(1, "png"), Object(2, <<"f">>)>>
    [] page = 2 -> <<Object(3, <<"f">>)>>
    [] OTHER -> <<>>

\* The statuses of the model: success, rate limit, the two skipped server
\* errors, and two other error statuses.
Statuses == {200, 429, 500, 503, 504, 404}

\* -------------------------------------------------------------- the state

VARIABLES
  pc,         \* "idle", "running" (inside main_logic), "done", "aborted"
  stack,      \* the call stack of the run, innermost call first
  ret,        \* the value the last completed call returned
  error,      \* the exception that ended the run, "" when none
  files,      \* the output tree: path -> what was written there
  dirs,       \* the directories of the output tree
  select,     \* app.config['select_path']
  pagesIn,    \* the pages of section s1, as the remote lists them
  answer,     \* the remote: the final status it gives each URL asked so far
  throttles,  \* 429 responses given so far
  run,        \* runs started so far
  reqs,       \* the URLs requested in this run
  last,       \* the last request and the status it got
  wrote,      \* the URLs whose body some run stored in the output tree
  unavail,    \* the page contents this run found unavailable
  prev,       \* files, dirs, wrote, unavail when this run started
  handed,     \* the download_page calls of the current download_pages call
  hist,       \* whether a run was stopped, and the output tree at that moment
  fin,        \* filter_items alone: its arguments
  fout        \* filter_items alone: its result

crawlerVars ==
  <<pc, stack, ret, error, files, dirs, select, pagesIn, answer, throttles, run, reqs,
    last, wrote, unavail, prev, handed, hist>>

filterVars == <<fin, fout>>

vars == <<crawlerVars, filterVars>>

Frame(op, phase, items, sel, path, item, aux) ==
  [op |-> op, phase |-> phase, items |-> items, select |-> sel, path |-> path,
   item |-> item, aux |-> aux]

Void == [kind |-> "void", val |-> 0]
None == [kind |-> "None", val |-> 0]
\* return resp of get
Value(v) == [kind |-> "value", val |-> v]
\* return values of get_json
List(v) == [kind |-> "list", val |-> v]
\* return content of download_attachments
Html(v) == [kind |-> "content", val |-> v]

NoRequest == [url |-> NoUrl, status |-> 0]

\* app.config['output_path']
OutDir == << <<"output">> >>

Exists(path) == path \in DOMAIN files \/ path \in dirs

Top == Head(stack)

\* The frames of a call of get(url), with the requests it has made so far,
\* and of get_json(url), which starts with its first call of get.
GetFrame(url) == Frame("get", "", <<>>, <<>>, <<>>, url, 0)

GetJsonFrames(url) ==
  <<GetFrame(url),
    Frame("get_json", "", <<>>, <<>>, <<>>, url,
          [url |-> url, calls |-> 1, thr0 |-> throttles])>>

Running(op, phase) ==
  pc = "running" /\ stack # <<>> /\ Top.op = op /\ Top.phase = phase

\* An exception nothing catches: main_logic ends with it.
Raise(e) == pc' = "aborted" /\ error' = e /\ stack' = <<>> /\ ret' = Void

Goto(frames) == pc' = pc /\ error' = error /\ stack' = frames \o Tail(stack)

\* ------------------------------------------------------------ fetch client

\* A variant of FinalStatuses for comparison: no status ends the loop of get.
NoFinalStatuses == {}

\* The statuses that end the loop of get.
FinalStatuses == Statuses \ {429}

Faults == Cardinality({u \in DOMAIN answer : answer[u] # 200})

\* What the remote may answer: 429 while it throttles, else the status it
\* has given this URL before, else any status.
Answers(url) ==
  (IF throttles < MaxThrottle THEN {429} ELSE {})
    \cup (IF url \in DOMAIN answer THEN {answer[url]}
          ELSE IF Faults < MaxFaults THEN FinalStatuses ELSE {200})

\* resp.raise_for_status() raises for a 4xx or 5xx status.
RaisesForStatus(status) == status >= 400

\* A variant of IsThrottled for comparison: a 503 is retried too.
IsThrottledOr503(status) == status \in {429, 503}

\* resp.status_code == 429
IsThrottled(status) == status = 429

\* A variant of IsSkipped for comparison: a 500 is not skipped.
IsSkipped504Only(status) == status = 504

\* resp.status_code == 500, resp.status_code == 504
IsSkipped(status) == status \in {500, 504}

\* One iteration of the loop of get: a request, and what get does with its
\* status.
get ==
  /\ Running("get", "")
  /\ \E status \in Answers(Top.item) :
       /\ last' = [url |-> Top.item, status |-> status]
       /\ reqs' = reqs \cup {Top.item}
       /\ throttles' = IF status = 429 THEN throttles + 1 ELSE throttles
       /\ answer' = IF status = 429 THEN answer ELSE (Top.item :> status) @@ answer
       /\ IF IsThrottled(status)
            THEN Goto(<<[Top EXCEPT !.aux = Top.aux + 1]>>) /\ ret' = ret
          ELSE IF IsSkipped(status) THEN Goto(<<>>) /\ ret' = None
          ELSE IF RaisesForStatus(status) THEN Raise("HTTPError")
          ELSE Goto(<<>>) /\ ret' = Value([url |-> Top.item, status |-> status])
  /\ UNCHANGED <<files, dirs, select, pagesIn, run, wrote, unavail, prev, handed, hist>>
  /\ UNCHANGED filterVars

\* ------------------------------------------------------- pagination reader

\* A variant of Accumulate for comparison: a batch replaces the batches before it.
AccumulateLast(values, batch) == batch

\* values += resp['value']
Accumulate(values, batch) == values \o batch

\* get_json after a call of get returned: the rest of the loop body, and
\* either the next call of get or the return.
get_json ==
  /\ Running("get_json", "")
  /\ IF ret.kind = "None" THEN
       \* None.json()
       Raise("AttributeError")
     ELSE
       LET resp == ListBody(ret.val.url, pagesIn)
           values == Accumulate(Top.items, resp.value)
       IN IF ~IsList(ret.val.url) THEN
            Raise("RuntimeError")
          ELSE IF resp.nextLink # NoUrl THEN
            /\ Goto(<<GetFrame(resp.nextLink),
                      [Top EXCEPT !.items = values, !.aux.calls = Top.aux.calls + 1]>>)
            /\ ret' = Void
          ELSE
            /\ Goto(<<>>)
            /\ ret' = List(values)
  /\ UNCHANGED <<files, dirs, select, pagesIn, answer, throttles, run, reqs, last,
                 wrote, unavail, prev, handed, hist>>
  /\ UNCHANGED filterVars

\* -------------------------------------------------------- hierarchy walker

walkerUnchanged ==
  <<files, dirs, select, pagesIn, answer, throttles, run, reqs, last, wrote,
    unavail, prev, hist>>

\* A variant of Selected for comparison: the selector is ignored.
SelectedAll(items, sel) == <<items, IF sel = <<>> THEN sel ELSE Tail(sel)>>

\* The call of filter_items at the head of each walker function.
Selected(items, sel) == filter_items(items, sel)

\* download_notebooks: the notebooks arrive and are filtered; then, for each
\* notebook, its sections and its section groups are read and handed on.
download_notebooks ==
  /\ \/ /\ Running("download_notebooks", "notebooks")
        /\ LET f == Selected(ret.val, Top.select) IN
           Goto(<<[Top EXCEPT !.phase = "loop", !.items = f[1], !.select = f[2]]>>)
     \/ /\ Running("download_notebooks", "loop")
        /\ IF Top.items = <<>> THEN Goto(<<>>)
           ELSE LET nb == Head(Top.items) IN
                Goto(GetJsonFrames(nb.sectionsUrl)
                     \o <<[Top EXCEPT !.phase = "sections", !.items = Tail(Top.items),
                                      !.item = nb]>>)
     \/ /\ Running("download_notebooks", "sections")
        /\ Goto(GetJsonFrames(Top.item.sectionGroupsUrl)
                \o <<[Top EXCEPT !.phase = "groups", !.aux = ret.val]>>)
     \/ /\ Running("download_notebooks", "groups")
        /\ LET path == PathJoin(Top.path, Top.item.displayName \o <<".SECTIONS">>) IN
           Goto(<<Frame("download_sections", "enter", Top.aux, Top.select, path, 0, 0),
                  Frame("download_section_groups", "enter", ret.val, Top.select, path, 0, 0),
                  [Top EXCEPT !.phase = "loop", !.item = 0, !.aux = 0]>>)
  /\ ret' = Void
  /\ UNCHANGED <<walkerUnchanged, handed>>
  /\ UNCHANGED filterVars

\* download_section_groups: for each selected section group, its sections
\* are read and handed on.
download_section_groups ==
  /\ \/ /\ Running("download_section_groups", "enter")
        /\ LET f == Selected(Top.items, Top.select) IN
           Goto(<<[Top EXCEPT !.phase = "loop", !.items = f[1], !.select = f[2]]>>)
     \/ /\ Running("download_section_groups", "loop")
        /\ IF Top.items = <<>> THEN Goto(<<>>)
           ELSE LET sg == Head(Top.items) IN
                Goto(GetJsonFrames(sg.sectionsUrl)
                     \o <<[Top EXCEPT !.phase = "sections", !.items = Tail(Top.items),
                                      !.item = sg]>>)
     \/ /\ Running("download_section_groups", "sections")
        /\ LET path == PathJoin(Top.path, Top.item.displayName \o <<".SECTIONS">>) IN
           Goto(<<Frame("download_sections", "enter", ret.val, Top.select, path, 0, 0),
                  [Top EXCEPT !.phase = "loop", !.item = 0]>>)
  /\ ret' = Void
  /\ UNCHANGED <<walkerUnchanged, handed>>
  /\ UNCHANGED filterVars

\* sec['pagesUrl'] + '?pagelevel=true'
PageLevel(url) == [url EXCEPT !.q = "pagelevel=true"]

\* download_sections: for each selected section, its pages are read and
\* handed to download_pages.
download_sections ==
  /\ \/ /\ Running("download_sections", "enter")
        /\ LET f == Selected(Top.items, Top.select) IN
           Goto(<<[Top EXCEPT !.phase = "loop", !.items = f[1], !.select = f[2]]>>)
     \/ /\ Running("download_sections", "loop")
        /\ IF Top.items = <<>> THEN Goto(<<>>)
           ELSE LET sec == Head(Top.items) IN
                Goto(GetJsonFrames(PageLevel(sec.pagesUrl))
                     \o <<[Top EXCEPT !.phase = "pages", !.items = Tail(Top.items),
                                      !.item = sec]>>)
     \/ /\ Running("download_sections", "pages")
        /\ LET path == PathJoin(Top.path, Top.item.displayName \o <<".NOTES">>) IN
           Goto(<<Frame("download_pages", "enter", ret.val, Top.select, path, 0, 0),
                  [Top EXCEPT !.phase = "loop", !.item = 0]>>)
  /\ ret' = Void
  /\ UNCHANGED <<walkerUnchanged, handed>>
  /\ UNCHANGED filterVars

\* The place of a page in a list sorted by order.
RECURSIVE Insert(_, _)
Insert(page, sorted) ==
  IF sorted = <<>> THEN <<page>>
  ELSE IF page.order < Head(sorted).order THEN <<page>> \o sorted
  ELSE <<Head(sorted)>> \o Insert(page, Tail(sorted))

\* A variant of Sorted for comparison: the pages are left as the remote lists them.
Unsorted(pages) == pages

\* sorted([(page['order'], page) for page in pages])
RECURSIVE Sorted(_)
Sorted(pages) ==
  IF pages = <<>> THEN <<>>
  ELSE Insert(pages[Len(pages)], Sorted(SubSeq(pages, 1, Len(pages) - 1)))

\* Two tuples with the same order compare their pages, and two different
\* dicts do not compare: sorted raises TypeError.
SortRaises(pages) ==
  \E i, j \in 1..Len(pages) :
    i # j /\ pages[i].order = pages[j].order /\ pages[i] # pages[j]

\* A variant of LevelTwoDir for comparison: a level-2 page is put beside its level-1 parent.
LevelTwoDirFlat(base, level_dirs) == PathJoin(base, level_dirs[1])

\* level_dirs[0] / level_dirs[1] / level_dirs[2]
LevelTwoDir(base, level_dirs) == PathJoin(PathJoin(base, level_dirs[1]), level_dirs[2])

\* download_pages: the selected pages are sorted by order; each is given
\* its directory from its level and the last pages seen at the levels
\* above, and handed to download_page.
download_pages ==
  /\ \/ /\ Running("download_pages", "enter")
        /\ LET f == Selected(Top.items, Top.select) IN
           IF SortRaises(f[1]) THEN Raise("TypeError") /\ handed' = handed
           ELSE /\ Goto(<<[Top EXCEPT !.phase = "loop", !.items = Sorted(f[1]),
                                      !.select = f[2],
                                      !.aux = [level_dirs |-> <<<<>>, <<>>>>,
                                               page_dir |-> <<>>, bound |-> FALSE]]>>)
                /\ ret' = Void
                /\ handed' = <<>>
     \/ /\ Running("download_pages", "loop")
        /\ IF Top.items = <<>> THEN Goto(<<>>) /\ ret' = Void /\ handed' = handed
           ELSE
             LET page == Head(Top.items)
                 level == page.level
                 page_title == sanitize(page.title)
                 level_dirs == Top.aux.level_dirs
                 page_dir ==
                   CASE level = 0 -> Top.path
                     [] level = 1 -> PathJoin(Top.path, level_dirs[1])
                     [] level = 2 -> LevelTwoDir(Top.path, level_dirs)
                     [] OTHER -> Top.aux.page_dir
                 dirs2 ==
                   CASE level = 0 -> <<page_title \o <<".NOTES">>, level_dirs[2]>>
                     [] level = 1 -> <<level_dirs[1], page_title \o <<".NOTES">>>>
                     [] OTHER -> level_dirs
             IN IF level \notin {0, 1, 2} /\ ~Top.aux.bound
                  THEN Raise("UnboundLocalError") /\ handed' = handed
                  ELSE
                    /\ Goto(<<Frame("download_page", "start", <<>>, <<>>, page_dir,
                                    [url |-> page.contentUrl, title |-> page_title], 0),
                              [Top EXCEPT !.items = Tail(Top.items),
                                          !.aux = [level_dirs |-> dirs2,
                                                   page_dir |-> page_dir, bound |-> TRUE]]>>)
                    /\ ret' = Void
                    /\ handed' = Append(handed,
                                        [id |-> page.id, order |-> page.order,
                                         level |-> level, title |-> page_title,
                                         base |-> Top.path, dir |-> page_dir])
  /\ UNCHANGED walkerUnchanged
  /\ UNCHANGED filterVars

\* ------------------------------------------- page materializer, attachments

Digit == <<"1", "2", "3", "4", "5", "6", "7", "8", "9">>

\* file_name of download_image: the content identifier of the URL and the
\* MIME subtype; of download_attachment: the declared data-attachment.
FileName(tag) ==
  IF tag.tag = "img" THEN <<Digit[tag.url.id], ".", tag.type>> ELSE tag.name

\* The first tag of the kind at or after position i, 0 when there is none.
NextTag(content, kind, i) ==
  LET at == {k \in i..Len(content) : content[k].tag = kind} IN
  IF at = {} THEN 0 ELSE CHOOSE k \in at : \A m \in at : k <= m

\* Where download_attachments goes on from position i of a pass: the next
\* <img> of the first pass, else the next <object> of the second, else the
\* return.
Resume(f, content, phase, i) ==
  LET img == IF phase = "img" THEN NextTag(content, "img", i) ELSE 0
      obj == NextTag(content, "object", IF phase = "img" THEN 1 ELSE i)
  IN IF img # 0 THEN [f EXCEPT !.phase = "img", !.items = content, !.aux = img]
     ELSE IF obj # 0 THEN [f EXCEPT !.phase = "object", !.items = content, !.aux = obj]
     ELSE [f EXCEPT !.phase = "return", !.items = content, !.aux = 0]

\* props['src'] = dir_name + "/" + file_name (props['data'] of an object)
Rewritten(tag) == [tag EXCEPT !.local = TRUE, !.name = FileName(tag)]

\* A variant of AlreadyExported for comparison: the page is fetched whatever is on disk.
NeverExported(out_html) == FALSE

\* out_html.exists()
AlreadyExported(out_html) == Exists(out_html)

\* A variant of AlreadyDownloaded for comparison: the attachment is fetched
\* whatever is on disk.
NeverDownloaded(file) == FALSE

\* (attachment_dir / file_name).exists()
AlreadyDownloaded(file) == Exists(file)

pageUnchanged ==
  <<select, pagesIn, answer, throttles, run, reqs, last, prev, handed, hist>>

\* download_page: the idempotence gate, the fetch of the content, the
\* attachments, and the write of the HTML file.
download_page ==
  /\ LET out_html == PathJoin(Top.path, Top.item.title \o <<".html">>) IN
     \/ /\ Running("download_page", "start")
        /\ IF AlreadyExported(out_html)
             THEN Goto(<<>>) /\ dirs' = dirs
             ELSE /\ Goto(<<GetFrame(Top.item.url), [Top EXCEPT !.phase = "content"]>>)
                  /\ dirs' = dirs \cup WithParents(Top.path)
        /\ ret' = Void
        /\ UNCHANGED <<files, wrote, unavail>>
     \/ /\ Running("download_page", "content")
        /\ IF ret.kind = "None"
             THEN Goto(<<>>) /\ unavail' = unavail \cup {Top.item.url}
             ELSE /\ Goto(<<Resume(Frame("download_attachments", "img", <<>>, <<>>,
                                         Top.path, Top.item, 0),
                                   Content(ret.val.url.id), "img", 1),
                            [Top EXCEPT !.phase = "write"]>>)
                  /\ unavail' = unavail
        /\ ret' = Void
        /\ UNCHANGED <<files, dirs, wrote>>
     \/ /\ Running("download_page", "write")
        /\ files' = (out_html :> [src |-> Top.item.url, tags |-> ret.val]) @@ files
        /\ wrote' = wrote \cup {Top.item.url}
        /\ Goto(<<>>)
        /\ ret' = Void
        /\ UNCHANGED <<dirs, unavail>>
  /\ UNCHANGED pageUnchanged
  /\ UNCHANGED filterVars

\* A variant of IsNone for comparison: no result of get counts as unavailable.
NeverNone(req) == FALSE

\* req is None
IsNone(req) == req.kind = "None"

\* A variant of LeftAsIs for comparison: the tag is pointed at the local path.
LeftRewritten(tag) == [tag EXCEPT !.local = TRUE, !.name = FileName(tag)]

\* return tag_match[0]
LeftAsIs(tag) == tag

\* One tag of a pass of download_attachments (download_image for an <img>,
\* download_attachment for an <object>): the idempotence gate and the fetch,
\* then the stored file and the rewritten tag, or the tag left as it is.
download_tag(kind) ==
  LET attachment_dir == PathJoin(Top.path, Top.item.title \o <<".FILES">>)
      tag == Top.items[Top.aux]
      file == PathJoin(attachment_dir, FileName(tag))
      local == [Top.items EXCEPT ![Top.aux] = Rewritten(tag)]
  IN
  \/ /\ Running("download_attachments", kind)
     /\ IF AlreadyDownloaded(file)
          THEN Goto(<<Resume(Top, local, kind, Top.aux + 1)>>)
          ELSE Goto(<<GetFrame(tag.url), [Top EXCEPT !.phase = kind \o "_got"]>>)
     /\ ret' = Void
     /\ UNCHANGED <<files, dirs, wrote>>
  \/ /\ Running("download_attachments", kind \o "_got")
     /\ IF IsNone(ret)
          THEN /\ Goto(<<Resume(Top, [Top.items EXCEPT ![Top.aux] = LeftAsIs(tag)],
                                 kind, Top.aux + 1)>>)
               /\ UNCHANGED <<files, dirs, wrote>>
          ELSE /\ Goto(<<Resume(Top, local, kind, Top.aux + 1)>>)
               /\ dirs' = dirs \cup {attachment_dir}
               /\ files' = (file :> [src |-> tag.url, tags |-> <<>>]) @@ files
               /\ wrote' = wrote \cup {tag.url}
     /\ ret' = Void

download_image ==
  /\ download_tag("img")
  /\ UNCHANGED <<pageUnchanged, unavail>>
  /\ UNCHANGED filterVars

download_attachment ==
  /\ download_tag("object")
  /\ UNCHANGED <<pageUnchanged, unavail>>
  /\ UNCHANGED filterVars

\* download_attachments returns the rewritten content.
download_attachments ==
  /\ Running("download_attachments", "return")
  /\ Goto(<<>>)
  /\ ret' = Html(Top.items)
  /\ UNCHANGED <<files, dirs, wrote, unavail, pageUnchanged>>
  /\ UNCHANGED filterVars

\* ------------------------------------------------------------------- runs

\* main_logic: the route that runs the export, from the call of
\* download_notebooks to "Done!".
main_logic ==
  /\ \/ /\ pc \in {"idle", "done", "aborted"}
        /\ run < MaxRuns
        /\ run' = run + 1
        /\ pc' = "running"
        /\ stack' = GetJsonFrames(graph_url_notebooks)
                      \o <<Frame("download_notebooks", "notebooks", <<>>, select, OutDir, 0, 0)>>
        /\ prev' = [files |-> files, dirs |-> dirs, wrote |-> wrote, unavail |-> unavail]
        /\ reqs' = {}
        /\ unavail' = {}
        /\ handed' = <<>>
        /\ last' = NoRequest
     \/ /\ pc = "running"
        /\ stack = <<>>
        /\ pc' = "done"
        /\ UNCHANGED <<stack, run, prev, reqs, unavail, handed, last>>
  /\ error' = ""
  /\ ret' = Void
  /\ UNCHANGED <<files, dirs, select, pagesIn, answer, throttles, wrote, hist>>
  /\ UNCHANGED filterVars

\* The selectors of the model: none, one notebook by a pattern in another
\* case, one of its sections and the pages of one title, a pattern nothing
\* matches.
Selects ==
  {<<>>, << <<"w", "*">> >>, << <<"W", "?">>, <<"s", "?">>, <<"a">> >>, << <<"x">> >>}

\* The pages of section s1 as the remote lists them, out of order: three
\* pages at level 0, two of them with the same title; or a page at each
\* level, the top one with a title that sanitizes to the title of another.
SectionPages ==
  {<<Page(1, <<"A">>, 2, 0), Page(2, <<"A">>, 1, 0), Page(3, <<"B">>, 3, 0)>>,
   <<Page(1, <<"A">>, 2, 1), Page(2, <<"B", "/">>, 1, 0), Page(3, <<"B">>, 3, 2)>>}

\* No run was stopped.
NoStop == [phase |-> "", files |-> <<>>]

NoArgs == [items |-> <<>>, select |-> <<>>]
NoResult == [done |-> FALSE, items |-> <<>>, select |-> <<>>]

Init ==
  /\ pc = "idle"
  /\ stack = <<>>
  /\ ret = Void
  /\ error = ""
  /\ files = <<>>
  /\ dirs = {}
  /\ select \in Selects
  /\ pagesIn \in SectionPages
  /\ answer = <<>>
  /\ throttles = 0
  /\ run = 0
  /\ reqs = {}
  /\ last = NoRequest
  /\ wrote = {}
  /\ unavail = {}
  /\ prev = [files |-> <<>>, dirs |-> {}, wrote |-> {}, unavail |-> {}]
  /\ handed = <<>>
  /\ hist = NoStop
  /\ fin = NoArgs
  /\ fout = NoResult

Next ==
  \/ main_logic
  \/ get
  \/ get_json
  \/ download_notebooks
  \/ download_section_groups
  \/ download_sections
  \/ download_pages
  \/ download_page
  \/ download_image
  \/ download_attachment
  \/ download_attachments

Spec == Init /\ [][Next]_vars

\* ------------------------------------------------------ download_pages alone

\* download_pages called on its own: three pages with any orders out of
\* 1..3 (equal orders too) and any levels, with and without a selector.
PageInputs ==
  {<<Page(1, <<"A">>, o[1], l[1]), Page(2, <<"A">>, o[2], l[2]),
     Page(3, <<"B">>, o[3], l[3])>> :
     o \in [1..3 -> 1..3], l \in [1..3 -> 0..2]}

PageSelects == {<<>>, << <<"a">> >>}

InitPages ==
  /\ pc = "running"
  /\ pagesIn \in PageInputs
  /\ select \in PageSelects
  /\ stack = <<Frame("download_pages", "enter", pagesIn, select, OutDir, 0, 0)>>
  /\ ret = Void
  /\ error = ""
  /\ files = <<>>
  /\ dirs = {}
  /\ answer = <<>>
  /\ throttles = 0
  /\ run = 1
  /\ reqs = {}
  /\ last = NoRequest
  /\ wrote = {}
  /\ unavail = {}
  /\ prev = [files |-> <<>>, dirs |-> {}, wrote |-> {}, unavail |-> {}]
  /\ handed = <<>>
  /\ hist = NoStop
  /\ fin = NoArgs
  /\ fout = NoResult

NextPages ==
  \/ get
  \/ download_pages
  \/ download_page
  \/ download_image
  \/ download_attachment
  \/ download_attachments

SpecPages == InitPages /\ [][NextPages]_vars

\* The export of one notebook, with its sections and section groups.
InitLive == Init /\ select = << <<"w", "*">> >>

\* Where the run is: the calls in progress and how far each has come.
Position ==
  <<pc, run, throttles,
    [i \in DOMAIN stack |->
       <<stack[i].op, stack[i].phase, Len(stack[i].items),
         IF stack[i].op \in {"get", "download_attachments"} THEN stack[i].aux ELSE 0>>]>>

\* The run takes its next step as long as it has one: a request is answered,
\* a sleep ends, a call returns.
SpecLive == InitLive /\ [][Next]_vars /\ WF_Position(Next)

\* ------------------------------------------------- stopped and resumed runs

\* The process is stopped between two steps of a run; the output tree stays
\* as it is.  A stop where an attachment has arrived falls before
\* attachment_dir.mkdir or between it and the write of the file.
terminate ==
  /\ pc = "running"
  /\ stack # <<>>
  /\ run < MaxRuns
  /\ hist.phase # "clean"
  /\ dirs' \in {dirs} \cup
       (IF Top.op = "download_attachments" /\ Top.phase \in {"img_got", "object_got"}
             /\ ~IsNone(ret)
          THEN {dirs \cup {PathJoin(Top.path, Top.item.title \o <<".FILES">>)}}
          ELSE {})
  /\ pc' = "aborted"
  /\ error' = "KeyboardInterrupt"
  /\ stack' = <<>>
  /\ ret' = Void
  /\ hist' = [phase |-> "stopped", files |-> files]
  /\ UNCHANGED <<files, select, pagesIn, answer, throttles, run, reqs, last,
                 wrote, unavail, prev, handed>>
  /\ UNCHANGED filterVars

\* After a stopped run was followed by a run that ended, the export is run
\* into an empty output directory against the same remote; prev keeps the
\* tree the resumed run ended on.
fresh_run ==
  /\ pc = "done"
  /\ hist.phase = "stopped"
  /\ hist' = [hist EXCEPT !.phase = "clean"]
  /\ prev' = [files |-> files, dirs |-> dirs, wrote |-> wrote, unavail |-> unavail]
  /\ files' = <<>>
  /\ dirs' = {}
  /\ wrote' = {}
  /\ pc' = "running"
  /\ stack' = GetJsonFrames(graph_url_notebooks)
                \o <<Frame("download_notebooks", "notebooks", <<>>, select, OutDir, 0, 0)>>
  /\ reqs' = {}
  /\ unavail' = {}
  /\ handed' = <<>>
  /\ last' = NoRequest
  /\ error' = ""
  /\ ret' = Void
  /\ UNCHANGED <<select, pagesIn, answer, throttles, run>>
  /\ UNCHANGED filterVars

\* The remote throttles no more; the selector is one notebook or the pages
\* of one title of one of its sections.
ResumeSelects == {<< <<"w", "*">> >>, << <<"W", "?">>, <<"s", "?">>, <<"a">> >>}

InitResume ==
  /\ pc = "idle"
  /\ stack = <<>>
  /\ ret = Void
  /\ error = ""
  /\ files = <<>>
  /\ dirs = {}
  /\ select \in ResumeSelects
  /\ pagesIn \in SectionPages
  /\ answer = <<>>
  /\ throttles = MaxThrottle
  /\ run = 0
  /\ reqs = {}
  /\ last = NoRequest
  /\ wrote = {}
  /\ unavail = {}
  /\ prev = [files |-> <<>>, dirs |-> {}, wrote |-> {}, unavail |-> {}]
  /\ handed = <<>>
  /\ hist = NoStop
  /\ fin = NoArgs
  /\ fout = NoResult

NextResume ==
  \/ main_logic
  \/ get
  \/ get_json
  \/ download_notebooks
  \/ download_section_groups
  \/ download_sections
  \/ download_pages
  \/ download_page
  \/ download_image
  \/ download_attachment
  \/ download_attachments
  \/ terminate
  \/ fresh_run

SpecResume == InitResume /\ [][NextResume]_vars

\* -------------------------------------------------------- filter_items alone

FilterNames == {<<"W", "k">>, <<"w", "k">>, <<"P">>}

FilterItems ==
  {[id |-> 1, displayName |-> n] : n \in FilterNames}
    \cup {[id |-> 2, title |-> n] : n \in FilterNames}

FilterPatterns == {<<"w", "*">>, <<"W", "?">>, <<"*">>, <<"p">>}

SeqsUpTo(S, n) == UNION {[1..k -> S] : k \in 0..n}

InitFilter ==
  /\ fin \in [items : SeqsUpTo(FilterItems, MaxItems), select : SeqsUpTo(FilterPatterns, 2)]
  /\ fout = NoResult
  /\ pc = "idle"
  /\ stack = <<>>
  /\ ret = Void
  /\ error = ""
  /\ files = <<>>
  /\ dirs = {}
  /\ select = <<>>
  /\ pagesIn = <<>>
  /\ answer = <<>>
  /\ throttles = 0
  /\ run = 0
  /\ reqs = {}
  /\ last = NoRequest
  /\ wrote = {}
  /\ unavail = {}
  /\ prev = [files |-> <<>>, dirs |-> {}, wrote |-> {}, unavail |-> {}]
  /\ handed = <<>>
  /\ hist = NoStop

\* A call of filter_items(items, select).
call_filter_items ==
  /\ ~fout.done
  /\ LET f == filter_items(fin.items, fin.select) IN
     fout' = [done |-> TRUE, items |-> f[1], select |-> f[2]]
  /\ UNCHANGED <<fin, crawlerVars>>

NextFilter == call_filter_items

SpecFilter == InitFilter /\ [][NextFilter]_vars

\* ================================================================== claims

\* C1.  Idempotence.  The remote is unchanged: it answers a URL in a later
\* run as it answered it before.  A run that follows another requests no
\* page content and no attachment whose body an earlier run stored in the
\* output tree, and when it ends the output tree is the tree it started from.
C1_Idempotent ==
  run >= 2 =>
    /\ reqs \cap prev.wrote = {}
    /\ pc \in {"done", "aborted"} => files = prev.files /\ dirs = prev.dirs

\* A second run has ended over a tree that holds pages and attachments of
\* the first.
C1_Witness ==
  /\ run = 2
  /\ pc = "done"
  /\ \E u \in prev.wrote : u.kind = "content"
  /\ \E u \in prev.wrote : u.kind = "resource"
  /\ reqs # {}

\* C2.  In get, a 429 leaves the call where it was (it neither returns nor
\* raises) and the request that follows is the same request; every other
\* status ends the call with that one response.
C2_OnlyThrottleRetries ==
  [][Running("get", "") =>
       /\ IF throttles' = throttles + 1
            THEN /\ last'.status = 429
                 /\ pc' = "running" /\ error' = error /\ ret' = ret
                 /\ stack' = <<[Top EXCEPT !.aux = Top.aux + 1]>> \o Tail(stack)
            ELSE /\ last'.status # 429
                 /\ pc' = "aborted" \/ (pc' = "running" /\ stack' = Tail(stack))
       /\ last.status = 429 => last'.url = last.url /\ last'.url = Top.item]_vars

\* A call of get is about to repeat a request that has been answered 429
\* as often as the remote throttles.
C2_Witness ==
  /\ Running("get", "")
  /\ last.status = 429
  /\ last.url = Top.item
  /\ Top.aux = MaxThrottle

\* C3.  The first status that is not 429 decides the outcome of get: 500 and
\* 504 return None and raise nothing; another status that is not a success
\* raises, the run ends there, and nothing is requested or written until
\* another run starts; a success returns the response.
C3_FetchOutcome ==
  [][/\ Running("get", "") /\ throttles' = throttles =>
          LET status == last'.status IN
          IF status \in {500, 504}
            THEN ret' = None /\ pc' = "running" /\ stack' = Tail(stack)
          ELSE IF status \notin 200..299
            THEN pc' = "aborted" /\ error' = "HTTPError" /\ stack' = <<>>
          ELSE /\ ret' = Value([url |-> Top.item, status |-> status])
               /\ pc' = "running" /\ stack' = Tail(stack)
     /\ pc = "aborted" /\ run' = run => UNCHANGED <<pc, files, dirs, reqs, wrote>>]_vars

\* A run that an error status ended after it had written part of the tree.
C3_Witness ==
  /\ pc = "aborted"
  /\ error = "HTTPError"
  /\ last.status \in {404, 503}
  /\ DOMAIN files # {}

\* C4.  A page whose content was unavailable leaves no HTML file and no
\* exception, and the run after it asks for the content of that page again.
C4_UnavailablePageRetried ==
  /\ \A u \in unavail : u \notin wrote
  /\ Running("download_page", "content") /\ ret.kind = "None" => error = ""
  /\ run >= 2 /\ pc = "done" => prev.unavail \subseteq reqs

\* C5.  A list request of get_json that ends in 500 or 504 does not end the
\* run.
C5_ListUnavailableNotFatal ==
  ~(pc = "aborted" /\ IsList(last.url) /\ last.status \in {500, 504})

RECURSIVE Flatten(_)
Flatten(batches) ==
  IF batches = <<>> THEN <<>> ELSE Head(batches) \o Flatten(Tail(batches))

\* C6.  With no 429 in between, the k-th call of get by get_json asks for
\* the k-th batch of the chain; after a batch with a continuation link
\* get_json calls get for that link, and after the batch without one it
\* returns the batches concatenated in the order they came, having called
\* get once per batch.
C6_Pagination ==
  [][Running("get_json", "") /\ ret.kind = "value" /\ throttles = Top.aux.thr0 =>
       LET batches == Batches(Top.aux.url, pagesIn)
           k == Top.aux.calls
       IN /\ ret.val.url = [Top.aux.url EXCEPT !.skip = k - 1]
          /\ IF k < Len(batches)
               THEN /\ Len(stack') = Len(stack) + 1
                    /\ stack'[1].op = "get"
                    /\ stack'[1].item = [Top.aux.url EXCEPT !.skip = k]
                    /\ stack'[2].aux.calls = k + 1
               ELSE /\ stack' = Tail(stack)
                    /\ ret' = List(Flatten(batches))]_vars

\* The third batch of a chain of three has arrived without a 429.
C6_Witness ==
  /\ Running("get_json", "")
  /\ ret.kind = "value"
  /\ Top.aux.calls = 3
  /\ Len(Batches(Top.aux.url, pagesIn)) = 3
  /\ Len(Top.items) = 2
  /\ throttles = Top.aux.thr0

\* The letters that differ only in case.
CasePairs == {{"W", "w"}, {"P", "p"}, {"A", "a"}, {"B", "b"}}

SameLetter(a, b) == a = b \/ {a, b} \in CasePairs

\* A case-insensitive glob: the name splits into one piece per pattern
\* character, any piece for "*", one character for "?", and for another
\* pattern character that character in either case.
GlobMatches(name, pat) ==
  \E cut \in [1..Len(pat) + 1 -> 0..Len(name)] :
    /\ cut[1] = 0
    /\ cut[Len(pat) + 1] = Len(name)
    /\ \A i \in 1..Len(pat) :
         /\ cut[i] <= cut[i + 1]
         /\ pat[i] # "*" =>
              /\ cut[i + 1] = cut[i] + 1
              /\ pat[i] = "?" \/ SameLetter(pat[i], name[cut[i + 1]])

NameOf(item) == IF "displayName" \in DOMAIN item THEN item.displayName ELSE item.title

\* C7.  filter_items with no segment left returns the items and the empty
\* segment list; otherwise it returns the items whose name matches the first
\* segment as a case-insensitive glob, in their order, and the segments
\* after the first; no match is an empty list.
C7_FilterItems ==
  fout.done =>
    IF fin.select = <<>>
      THEN fout.items = fin.items /\ fout.select = <<>>
      ELSE
        LET hit == {i \in 1..Len(fin.items) : GlobMatches(NameOf(fin.items[i]), fin.select[1])}
        IN /\ Len(fout.select) = Len(fin.select) - 1
           /\ \A i \in 1..Len(fout.select) : fout.select[i] = fin.select[i + 1]
           /\ Len(fout.items) = Cardinality(hit)
           /\ \A k \in 1..Len(fout.items) :
                \E i \in hit : /\ Cardinality({j \in hit : j <= i}) = k
                               /\ fout.items[k] = fin.items[i]

\* filter_items kept some items in another case than the pattern's, dropped
\* others, and handed on a segment.
C7_Witness ==
  /\ fout.done
  /\ Len(fin.select) = 2
  /\ Len(fin.items) = 3
  /\ Len(fout.items) = 2
  /\ fout.items[1] = fin.items[1]
  /\ fout.items[2] = fin.items[3]
  /\ NameOf(fin.items[1]) = <<"W", "k">>
  /\ fin.select[1] = <<"w", "*">>

Endpoint(url) == <<url.kind, url.id>>

ChildUrls(item) ==
  {item[f] : f \in DOMAIN item \cap {"sectionsUrl", "sectionGroupsUrl", "pagesUrl", "contentUrl"}}

\* The endpoints at and below a URL of the remote hierarchy.
RECURSIVE Below(_, _)
Below(url, depth) ==
  {Endpoint(url)}
    \cup {Endpoint(Content(url.id)[i].url) :
            i \in IF url.kind = "content" THEN DOMAIN Content(url.id) ELSE {}}
    \cup (IF depth = 0 THEN {}
          ELSE UNION {Below(c, depth - 1) :
                        c \in UNION {ChildUrls(Listing(url, pagesIn)[i]) :
                                       i \in DOMAIN Listing(url, pagesIn)}})

\* C8.  With a selector, no endpoint at or below a notebook whose name does
\* not match the first segment is ever requested.
C8_UnselectedNotebookUntouched ==
  select # <<>> =>
    \A i \in DOMAIN NotebookList :
      ~GlobMatches(NotebookList[i].displayName, select[1]) =>
        \A u \in reqs :
          Endpoint(u) \notin Below(NotebookList[i].sectionsUrl, 4)
                               \cup Below(NotebookList[i].sectionGroupsUrl, 4)

\* With the selector w*, the run has ended after it fetched pages of Work.
C8_Witness ==
  /\ select = << <<"w", "*">> >>
  /\ pc = "done"
  /\ \E u \in reqs : u.kind = "content"
  /\ \E u \in reqs : u = NotebookList[1].sectionGroupsUrl

\* C9.  download_pages hands a page of lower order to download_page before
\* a page of higher order, whatever the order of the input.
C9_AscendingOrder ==
  \A i, j \in DOMAIN handed : handed[i].order < handed[j].order => i < j

\* Three pages that the remote listed out of order have been handed on.
C9_Witness ==
  /\ Len(handed) = 3
  /\ pagesIn[1].order > pagesIn[2].order
  /\ pagesIn[2].order > pagesIn[3].order
  /\ handed[1].id = 3

\* The anchor a page of the level leaves: <title>.NOTES of the last page of
\* that level handed on before position i, nothing when there is none.
Anchor(level, i) ==
  LET seen == {j \in 1..i - 1 : handed[j].level = level} IN
  IF seen = {} THEN <<>>
  ELSE << handed[CHOOSE j \in seen : \A m \in seen : m <= j].title \o <<".NOTES">> >>

\* C10.  The directory of a page is the base for level 0, the base and the
\* level-1 anchor for level 1, the base and both anchors for level 2, the
\* level-1 anchor being <title>.NOTES of the last level-0 page seen and the
\* level-2 anchor <title>.NOTES of the last level-1 page seen (no segment
\* while no such page was seen).
C10_NestingReconstruction ==
  \A i \in DOMAIN handed :
    handed[i].dir =
      CASE handed[i].level = 0 -> handed[i].base
        [] handed[i].level = 1 -> handed[i].base \o Anchor(0, i)
        [] handed[i].level = 2 -> handed[i].base \o Anchor(0, i) \o Anchor(1, i)

\* Pages (1, level 0, A), (2, level 1, A), (3, level 2, B) were written as
\* A.html, A.NOTES/A.html and A.NOTES/A.NOTES/B.html.
C10_Witness ==
  /\ Len(handed) = 3
  /\ \A i \in 1..3 : handed[i].level = i - 1
  /\ OutDir \o << <<"A", ".html">> >> \in DOMAIN files
  /\ OutDir \o << <<"A", ".NOTES">>, <<"A", ".html">> >> \in DOMAIN files
  /\ OutDir \o << <<"A", ".NOTES">>, <<"A", ".NOTES">>, <<"B", ".html">> >> \in DOMAIN files

\* The section groups at and below a sectionGroupsUrl of the remote.
RECURSIVE Groups(_, _)
Groups(url, depth) ==
  LET here == {Listing(url, pagesIn)[i] : i \in DOMAIN Listing(url, pagesIn)} IN
  here \cup (IF depth = 0 THEN {}
             ELSE UNION {Groups(sg.sectionGroupsUrl, depth - 1) : sg \in here})

\* C11.  A run with no selector that ends has visited every section group
\* reachable from a notebook, the section groups of section groups too: it
\* has read the sections of each.
C11_NestedGroupsVisited ==
  pc = "done" /\ select = <<>> =>
    \A i \in DOMAIN NotebookList :
      \A sg \in Groups(NotebookList[i].sectionGroupsUrl, 3) : sg.sectionsUrl \in reqs

\* The segments of a created path below the output directory.
Created == {SubSeq(p, Len(OutDir) + 1, Len(p)) : p \in DOMAIN files \cup dirs}

\* C12.  Every segment of a created file or directory below the output
\* directory is a sanitized name: sanitization leaves it as it is.
C12_SegmentsSanitized ==
  \A p \in Created : \A i \in DOMAIN p : sanitize(p[i]) = p[i]

\* A <title>.FILES directory.
IsAttachmentDir(d) == d # <<>> /\ d[Len(d)][Len(d[Len(d)])] = ".FILES"

\* C13.  When the fetch of an image or an object returns None, the tag stays
\* as it was, no file is written and no directory is created; and every
\* <title>.FILES directory of the output tree holds a stored file.
C13_UnavailableAttachment ==
  [][/\ \A kind \in {"img", "object"} :
          Running("download_attachments", kind \o "_got") /\ ret = None =>
            /\ files' = files /\ dirs' = dirs
            /\ pc' = "running" /\ Len(stack') = Len(stack)
            /\ stack'[1].op = "download_attachments"
            /\ stack'[1].items = Top.items
            /\ ~Top.items[Top.aux].local
     /\ \A d \in dirs' : IsAttachmentDir(d) =>
          \E f \in DOMAIN files' : SubSeq(f, 1, Len(f) - 1) = d]_vars

\* A page was written whose only attachment was unavailable: its tag still
\* points to the remote and there is no <title>.FILES directory.
C13_Witness ==
  /\ \E p \in DOMAIN files :
       /\ Len(files[p].tags) = 1
       /\ ~files[p].tags[1].local
       /\ answer[files[p].tags[1].url] \in {500, 504}
  /\ \A d \in dirs : ~IsAttachmentDir(d)

\* The local file of the tag a pass of download_attachments is at.
LocalFile(f) ==
  f.path \o << f.item.title \o <<".FILES">>, FileName(f.items[f.aux]) >>

\* C14.  A reference whose local file exists issues no fetch and is only
\* rewritten to the local path; a reference whose local file does not exist
\* is fetched; and a stored attachment is never stored again, so the
\* references to one file name in one attachment directory make one download.
C14_AttachmentDedup ==
  [][/\ \A kind \in {"img", "object"} :
          Running("download_attachments", kind) =>
            IF LocalFile(Top) \in DOMAIN files
              THEN /\ Len(stack') = Len(stack)
                   /\ stack'[1].op = "download_attachments"
                   /\ stack'[1].items =
                        [Top.items EXCEPT ![Top.aux].local = TRUE,
                                          ![Top.aux].name = FileName(Top.items[Top.aux])]
                   /\ files' = files /\ reqs' = reqs
              ELSE /\ Len(stack') = Len(stack) + 1
                   /\ stack'[1].op = "get"
                   /\ stack'[1].item = Top.items[Top.aux].url
     /\ \A f \in DOMAIN files :
          IsAttachmentDir(SubSeq(f, 1, Len(f) - 1)) =>
            f \in DOMAIN files' /\ files'[f] = files[f]]_vars

\* A page that shows one image twice was written with both references
\* pointing to the one local file.
C14_Witness ==
  \E p \in DOMAIN files :
    /\ Len(files[p].tags) >= 2
    /\ files[p].tags[1].local /\ files[p].tags[2].local
    /\ files[p].tags[1].name = files[p].tags[2].name
    /\ SubSeq(p, 1, Len(p) - 1)
         \o << SubSeq(p[Len(p)], 1, Len(p[Len(p)]) - 1) \o <<".FILES">>,
               files[p].tags[1].name >> \in DOMAIN files

\* The references of a tree that were left pointing to the remote.
LeftRemote(tree) ==
  UNION {{tree[p].tags[i].url : i \in {k \in DOMAIN tree[p].tags : ~tree[p].tags[k].local}} :
           p \in DOMAIN tree}

\* C15.  An attachment whose fetch was unavailable does not end the run, and
\* the run after it asks for that attachment again.
C15_UnavailableAttachmentRetried ==
  /\ (\E kind \in {"img", "object"} :
         Running("download_attachments", kind \o "_got") /\ ret = None) => error = ""
  /\ run >= 2 /\ pc = "done" => LeftRemote(prev.files) \subseteq reqs

\* C16.  A run is stopped between two steps and the export is run again to
\* its end against the unchanged remote.  The run after the stop requests
\* nothing whose body is already stored in the output tree, and the tree it
\* ends on is the tree a run into an empty directory ends on.
C16_Resumable ==
  /\ hist.phase = "stopped" /\ run >= 2 => reqs \cap prev.wrote = {}
  /\ hist.phase = "clean" /\ pc = "done" => files = prev.files /\ dirs = prev.dirs

\* A run was stopped after it had stored an attachment of a page but not
\* the page; the export was run again to its end, and a run into an empty
\* directory has ended too.
C16_Witness ==
  /\ hist.phase = "clean"
  /\ pc = "done"
  /\ \E f \in DOMAIN hist.files :
       /\ IsAttachmentDir(SubSeq(f, 1, Len(f) - 1))
       /\ \E p \in DOMAIN files \ DOMAIN hist.files :
            /\ files[p].tags # <<>>
            /\ SubSeq(p, 1, Len(p) - 1) = SubSeq(f, 1, Len(f) - 2)

\* C17.  With a remote that stops answering 429 and a run that takes its
\* steps, every run ends with "done" or with an error that aborts it, so
\* every call of get in it has come to an end.
C17_Termination == pc = "running" ~> pc \in {"done", "aborted"}

\* A run has ended after a request of it was answered 429 as often as the
\* remote throttles.
C17_Witness ==
  /\ pc = "done"
  /\ throttles = MaxThrottle
  /\ last.url.kind = "content"

\* The pages of section s1 of notebook Work that pass the selector.
SelectedPages ==
  LET passes(k, name) == Len(select) < k \/ GlobMatches(name, select[k]) IN
  IF passes(1, Work) /\ passes(2, <<"s", "1">>)
    THEN {pagesIn[i] : i \in {j \in DOMAIN pagesIn : passes(3, pagesIn[j].title)}}
    ELSE {}

\* C18.  A first run into the empty output directory in which every
\* response is a success ends with "done", and every page that passes the
\* selector has had its content requested and has an HTML file of its own.
C18_CleanRunComplete ==
  /\ run = 1
  /\ pc \in {"done", "aborted"}
  /\ throttles = 0
  /\ \A u \in DOMAIN answer : answer[u] = 200
  => /\ pc = "done"
     /\ \A page \in SelectedPages :
          /\ page.contentUrl \in reqs
          /\ \E f \in DOMAIN files : files[f].src = page.contentUrl

\* C19.  A level-1 page is placed in the .NOTES directory of the last
\* level-0 page before it, and a level-2 page in the .NOTES directory of a
\* level-1 page before it with no level-0 page in between.
C19_AnchorConsistency ==
  \A i \in DOMAIN handed :
    /\ handed[i].level = 1 =>
         \E j \in 1..i - 1 :
           /\ handed[j].level = 0
           /\ \A k \in j + 1..i - 1 : handed[k].level # 0
           /\ handed[i].dir = handed[j].dir \o << handed[j].title \o <<".NOTES">> >>
    /\ handed[i].level = 2 =>
         \E j \in 1..i - 1 :
           /\ handed[j].level = 1
           /\ \A k \in j + 1..i - 1 : handed[k].level \notin {0, 1}
           /\ handed[i].dir = handed[j].dir \o << handed[j].title \o <<".NOTES">> >>

\* The file a rewritten reference of the HTML file p points to:
\* <title>.FILES/<name> beside p.
Referenced(p, tag) ==
  SubSeq(p, 1, Len(p) - 1)
    \o << SubSeq(p[Len(p)], 1, Len(p[Len(p)]) - 1) \o <<".FILES">>, tag.name >>

\* C20.  While the attachments of a page are being resolved its HTML file
\* does not exist, and every reference of an HTML file on disk that was
\* rewritten to a local path names a file on disk.
C20_WriteOrdering ==
  /\ \A i \in DOMAIN stack :
       stack[i].op = "download_attachments" =>
         stack[i].path \o << stack[i].item.title \o <<".html">> >> \notin DOMAIN files
  /\ \A p \in DOMAIN files :
       \A i \in DOMAIN files[p].tags :
         files[p].tags[i].local => Referenced(p, files[p].tags[i]) \in DOMAIN files

\* A page was written with its image fetched and rewritten and its
\* attachment unavailable and left pointing to the remote.
C20_Witness ==
  \E p \in DOMAIN files :
    /\ Len(files[p].tags) = 3
    /\ files[p].tags[1].local
    /\ ~files[p].tags[3].local
    /\ Referenced(p, files[p].tags[1]) \in DOMAIN files

====
